---- MODULE Spec2Model ----
(***************************************************************************)
(* Model of main.go: the HTTP handler handleOpenURL and the navigation     *)
(* strategy updateFirefoxURL.  Every request is served by its own          *)
(* goroutine; external commands (exec.Cmd) are the only blocking steps, so *)
(* each of them is one action and the handler code between two commands    *)
(* belongs to the action of the command it follows.                        *)
(*                                                                         *)
(* A request body is a sequence of JSON tokens.  String literals are       *)
(* written with single quotes ('url'), so that a token and the string it   *)
(* decodes to are different values.                                        *)
(***************************************************************************)
EXTENDS Integers, Sequences, FiniteSets, TLC

VARIABLES goos, pc, method, body, bodyRead, decodeErr, reqURL,
          navCalls, navErr, cmd, execLog, resp, window

vars == <<goos, pc, method, body, bodyRead, decodeErr, reqURL,
          navCalls, navErr, cmd, execLog, resp, window>>

\* Number of requests in flight at the same time.
NumReq == 2
\* Largest number of members of a JSON object in a generated request body.
MaxMembers == 2

Reqs == 1..NumReq

\* ------------------------------------------------------------------ JSON
StrTok == {"'url'", "'URL'", "'k'", "''", "'a'", "'\\u0061'"}
Scalars == {"5", "null", "true"}

\* The Go string a JSON string literal decodes to.
StrVal(t) ==
  CASE t = "'url'" -> "url"
    [] t = "'URL'" -> "URL"
    [] t = "'k'" -> "k"
    [] t = "''" -> ""
    [] t = "'a'" -> "a"
    [] t = "'\\u0061'" -> "a"

\* Case folding of a member name, as the decoder's field lookup does it.
Fold(s) == IF s = "URL" THEN "url" ELSE s

RECURSIVE EndOfValue(_, _), EndOfElems(_, _), EndOfMembers(_, _)
\* The index just after the JSON value that starts at b[i]; 0 when the
\* tokens from i on do not start with a complete value.
EndOfValue(b, i) ==
  IF i > Len(b) THEN 0
  ELSE IF b[i] \in Scalars \cup StrTok THEN i + 1
  ELSE IF b[i] = "[" THEN
    IF i + 1 <= Len(b) /\ b[i + 1] = "]" THEN i + 2 ELSE EndOfElems(b, i + 1)
  ELSE IF b[i] = "{" THEN
    IF i + 1 <= Len(b) /\ b[i + 1] = "}" THEN i + 2 ELSE EndOfMembers(b, i + 1)
  ELSE 0

EndOfElems(b, i) ==
  LET j == EndOfValue(b, i) IN
  IF j = 0 \/ j > Len(b) THEN 0
  ELSE IF b[j] = "]" THEN j + 1
  ELSE IF b[j] = "," THEN EndOfElems(b, j + 1)
  ELSE 0

EndOfMembers(b, i) ==
  IF i + 1 > Len(b) \/ b[i] \notin StrTok \/ b[i + 1] # ":" THEN 0
  ELSE LET j == EndOfValue(b, i + 2) IN
       IF j = 0 \/ j > Len(b) THEN 0
       ELSE IF b[j] = "}" THEN j + 1
       ELSE IF b[j] = "," THEN EndOfMembers(b, j + 1)
       ELSE 0

\* A member name selects the field URL (tag json:"url"): exact or
\* case-insensitive match.
KeyMatches(k) == Fold(StrVal(k)) = "url"

RECURSIVE UnmarshalMembers(_, _, _)
\* Unmarshal of the members of a syntactically complete object, from the
\* member that starts at b[i], into acc = [url, err].  A value of the wrong
\* type for the field records an error and leaves the field alone; null
\* leaves the field alone; later members overwrite earlier ones.
UnmarshalMembers(b, i, acc) ==
  IF b[i] = "}" THEN acc
  ELSE LET k == b[i]
           v == b[i + 2]
           j == EndOfValue(b, i + 2)
           a == IF ~KeyMatches(k) \/ v = "null" THEN acc
                ELSE IF v \in StrTok THEN [acc EXCEPT !.url = StrVal(v)]
                ELSE [acc EXCEPT !.err = TRUE]
       IN IF b[j] = "}" THEN a ELSE UnmarshalMembers(b, j + 1, a)

\* json.NewDecoder(r.Body).Decode(&req): reads the first JSON value of the
\* body and unmarshals it into a zero URLRequest.  What follows the first
\* value is not looked at.
Decode(b) ==
  LET e == EndOfValue(b, 1) IN
  IF e = 0 THEN [err |-> TRUE, url |-> ""]
  ELSE IF b[1] = "{" THEN UnmarshalMembers(b, 2, [err |-> FALSE, url |-> ""])
  ELSE IF b[1] = "null" THEN [err |-> FALSE, url |-> ""]
  ELSE [err |-> TRUE, url |-> ""]

\* ------------------------------------------------------- request inputs
Methods == {"POST", "GET", "post"}
Keys == {"'url'", "'URL'", "'k'"}
Vals == {"''", "'a'", "'\\u0061'", "5", "null"}
Member == {<<k, ":", v>> : k \in Keys, v \in Vals}

RECURSIVE MemberLists(_)
\* The comma-separated lists of exactly n members.
MemberLists(n) ==
  IF n = 1 THEN Member
  ELSE {m \o <<",">> \o l : m \in Member, l \in MemberLists(n - 1)}

Objects ==
  {<<"{", "}">>} \cup
  UNION {{<<"{">> \o l \o <<"}">> : l \in MemberLists(n)} : n \in 1..MaxMembers}

Documents ==
  Objects \cup {<<t>> : t \in Scalars \cup {"''", "'a'"}} \cup {<<"[", "]">>}

\* Complete documents, documents followed by trailing bytes, documents cut
\* short, the empty body and a body that is no JSON at all.
Bodies ==
  Documents
    \cup {d \o <<"x">> : d \in Documents}
    \cup {SubSeq(d, 1, Len(d) - 1) : d \in Documents}
    \cup {<<"x">>}

\* ---------------------------------------------------------------- errors
NoErr == <<>>

ExecOutcomes == {"ok", "exit1", "nostart"}

\* The error of cmd.Run() for a command named name.
ExecErr(name, o) ==
  IF o = "ok" THEN NoErr
  ELSE IF o = "exit1" THEN <<"exit status 1">>
  ELSE <<"exec: ", name, ": executable file not found in $PATH">>

\* fmt.Errorf("<what>: %v", err)
Wrap(what, err) == <<what>> \o err

Response(status, success, message) ==
  [status |-> status, success |-> success, message |-> message]

\* ------------------------------------------------------------- responses
MethodNotAllowed == Response(405, FALSE, <<"Only POST method is allowed">>)
InvalidJSON == Response(400, FALSE, <<"Invalid JSON payload">>)
\* Mutant: the empty-url answer carries the text of the decode answer.
EmptyURLAsInvalid == Response(400, FALSE, <<"Invalid JSON payload">>)
EmptyURL == Response(400, FALSE, <<"URL cannot be empty">>)
NavFailed(err) == Response(500, FALSE, Wrap("Failed to change URL: ", err))
NavOK(url) == Response(200, TRUE, <<"Successfully changed Firefox tab to ", url>>)

\* Mutant: the error of updateFirefoxURL is dropped.
ReplyDropsError(err, url) == NavOK(url)

\* The handler's answer to what updateFirefoxURL(url) returned.
Reply(err, url) == IF err # NoErr THEN NavFailed(err) ELSE NavOK(url)

\* Mutant: the method is compared without regard to case.
MethodAllowedAnyCase(m) == m \in {"POST", "post"}
MethodAllowed(m) == m = "POST"

\* Mutant: the url check is missing.
UrlOKAlways(u) == TRUE
UrlOK(u) == u # ""

\* ------------------------------------------------------------- the state
GOOS == {"linux", "darwin", "windows", "freebsd"}

Init ==
  /\ goos \in GOOS
  /\ pc = [r \in Reqs |-> "idle"]
  /\ method = [r \in Reqs |-> ""]
  /\ body = [r \in Reqs |-> <<>>]
  /\ bodyRead = [r \in Reqs |-> FALSE]
  /\ decodeErr = [r \in Reqs |-> FALSE]
  /\ reqURL = [r \in Reqs |-> ""]
  /\ navCalls = [r \in Reqs |-> 0]
  /\ navErr = [r \in Reqs |-> NoErr]
  /\ cmd = [r \in Reqs |-> <<>>]
  /\ execLog = [r \in Reqs |-> <<>>]
  /\ resp = [r \in Reqs |-> <<>>]
  /\ window = <<>>

\* Mutant: the automation steps run under a lock shared by the requests.
AtExclusive(r, p) ==
  /\ pc[r] = p
  /\ p \in {"focus", "select", "type", "enter"} =>
       \A q \in Reqs \ {r} : pc[q] \notin {"select", "type", "enter"}

\* The goroutine of request r stands at position p of its code.
At(r, p) == pc[r] = p

\* One executed command: its argv and how it ended.
Ran(argv, o) == [argv |-> argv, out |-> o]

\* updateFirefoxURL returns err; the handler writes the response for it.
Finish(r, err, url) ==
  /\ navErr' = [navErr EXCEPT ![r] = err]
  /\ resp' = [resp EXCEPT ![r] = Append(@, Reply(err, url))]
  /\ pc' = [pc EXCEPT ![r] = "done"]

\* The handler answers without calling updateFirefoxURL.
Reject(r, response) ==
  /\ resp' = [resp EXCEPT ![r] = Append(@, response)]
  /\ pc' = [pc EXCEPT ![r] = "done"]
  /\ UNCHANGED <<navCalls, navErr, cmd>>

\* The call updateFirefoxURL(url), up to its first external command.
Navigate(r, url) ==
  /\ navCalls' = [navCalls EXCEPT ![r] = @ + 1]
  /\ CASE goos = "linux" ->
            /\ pc' = [pc EXCEPT ![r] = "pgrep"]
            /\ UNCHANGED <<navErr, cmd, resp>>
       [] goos = "darwin" ->
            /\ cmd' = [cmd EXCEPT ![r] = <<"osascript", "-e", url>>]
            /\ pc' = [pc EXCEPT ![r] = "run"]
            /\ UNCHANGED <<navErr, resp>>
       [] goos = "windows" ->
            /\ pc' = [pc EXCEPT ![r] = "tasklist"]
            /\ UNCHANGED <<navErr, cmd, resp>>
       [] OTHER ->
            /\ Finish(r, <<"unsupported operating system: ", goos>>, url)
            /\ UNCHANGED cmd

\* handleOpenURL from its entry to its first blocking call.
Receive(r, m, b) ==
  /\ At(r, "idle")
  /\ method' = [method EXCEPT ![r] = m]
  /\ body' = [body EXCEPT ![r] = b]
  /\ UNCHANGED <<goos, execLog, window>>
  /\ IF ~MethodAllowed(m)
     THEN /\ Reject(r, MethodNotAllowed)
          /\ UNCHANGED <<bodyRead, decodeErr, reqURL>>
     ELSE LET d == Decode(b) IN
          /\ bodyRead' = [bodyRead EXCEPT ![r] = TRUE]
          /\ decodeErr' = [decodeErr EXCEPT ![r] = d.err]
          /\ reqURL' = [reqURL EXCEPT ![r] = d.url]
          /\ IF d.err THEN Reject(r, InvalidJSON)
             ELSE IF ~UrlOK(d.url) THEN Reject(r, EmptyURL)
             ELSE Navigate(r, d.url)

\* Mutant: the test of the check's error is inverted.
PgrepRunningInverted(o) == ExecErr("pgrep", o) # NoErr

\* checkCmd.Run() reported that a firefox process exists.
PgrepRunning(o) == ExecErr("pgrep", o) = NoErr

\* linux: pgrep firefox, then either the launch command or the first
\* automation step.
Pgrep(r, o) ==
  /\ At(r, "pgrep")
  /\ execLog' = [execLog EXCEPT ![r] = Append(@, Ran(<<"pgrep", "firefox">>, o))]
  /\ IF PgrepRunning(o)
     THEN /\ pc' = [pc EXCEPT ![r] = "focus"]
          /\ UNCHANGED cmd
     ELSE /\ cmd' = [cmd EXCEPT ![r] = <<"firefox", reqURL[r]>>]
          /\ pc' = [pc EXCEPT ![r] = "run"]
  /\ UNCHANGED <<goos, method, body, bodyRead, decodeErr, reqURL,
                 navCalls, navErr, resp, window>>

\* The xdotool command of an automation step.
StepArgv(step, url) ==
  CASE step = "focus" ->
         <<"xdotool", "search", "--onlyvisible", "--class", "Firefox", "windowactivate">>
    [] step = "select" -> <<"xdotool", "key", "ctrl+l">>
    [] step = "type" -> <<"xdotool", "type", "--clearmodifiers", url>>
    [] step = "enter" -> <<"xdotool", "key", "Return">>

\* What updateFirefoxURL returns when the command of step ended with err.
StepError(step, err) ==
  CASE step = "focus" -> Wrap("failed to focus Firefox window: ", err)
    [] step = "select" -> Wrap("failed to select address bar: ", err)
    [] step = "type" -> Wrap("failed to type URL: ", err)
    [] step = "enter" -> err

\* The position after a step whose command succeeded.
StepNext(step) ==
  CASE step = "focus" -> "select"
    [] step = "select" -> "type"
    [] step = "type" -> "enter"
    [] step = "enter" -> "return"

\* Mutant: only a non-zero exit is taken for a failure.
StepAbortsOnExitOnly(o) == o = "exit1"

\* The step's command failed: the sequence is abandoned.
StepAborts(o) == ExecErr("xdotool", o) # NoErr

\* One automation step: run its xdotool command; on failure return the
\* step's error, on success go on to the next step (after the last one,
\* return nil).
Xdotool(r, step, o) ==
  /\ At(r, step)
  /\ execLog' = [execLog EXCEPT ![r] = Append(@, Ran(StepArgv(step, reqURL[r]), o))]
  /\ window' = IF o = "ok" THEN Append(window, <<r, step>>) ELSE window
  /\ IF StepAborts(o)
     THEN Finish(r, StepError(step, ExecErr("xdotool", o)), reqURL[r])
     ELSE IF StepNext(step) = "return"
     THEN Finish(r, NoErr, reqURL[r])
     ELSE /\ pc' = [pc EXCEPT ![r] = StepNext(step)]
          /\ UNCHANGED <<navErr, resp>>
  /\ UNCHANGED <<goos, method, body, bodyRead, decodeErr, reqURL, navCalls, cmd>>

Focus(r, o) == Xdotool(r, "focus", o)
SelectBar(r, o) == Xdotool(r, "select", o)
TypeURL(r, o) == Xdotool(r, "type", o)
PressEnter(r, o) == Xdotool(r, "enter", o)

\* stdout of tasklist /FI "IMAGENAME eq firefox.exe" /NH; a tasklist that
\* failed or could not be started wrote nothing to stdout.
TasklistOutcomes == {"listed", "notlisted", "exit1", "nostart"}
TasklistOutput(o) ==
  IF o = "listed" THEN <<"firefox.exe", "Console">>
  ELSE IF o = "notlisted" THEN <<"INFO: No tasks are running">>
  ELSE <<>>

\* strings.Contains(string(output), "firefox.exe")
Contains(output, s) == \E i \in 1..Len(output) : output[i] = s

\* windows: tasklist (its error is dropped), then the command to run.
Tasklist(r, o) ==
  /\ At(r, "tasklist")
  /\ execLog' = [execLog EXCEPT ![r] = Append(@, Ran(<<"tasklist">>, o))]
  /\ cmd' = [cmd EXCEPT ![r] =
       IF ~Contains(TasklistOutput(o), "firefox.exe")
       THEN <<"cmd", "/C", "start", "firefox.exe", reqURL[r]>>
       ELSE <<"powershell", "-Command", reqURL[r]>>]
  /\ pc' = [pc EXCEPT ![r] = "run"]
  /\ UNCHANGED <<goos, method, body, bodyRead, decodeErr, reqURL,
                 navCalls, navErr, resp, window>>

\* return cmd.Run(), first half: Start.  A command that cannot be started
\* makes Run return at once.
RunStart(r, started) ==
  /\ At(r, "run")
  /\ IF started
     THEN /\ execLog' = [execLog EXCEPT ![r] = Append(@, Ran(cmd[r], "running"))]
          /\ pc' = [pc EXCEPT ![r] = "wait"]
          /\ UNCHANGED <<navErr, resp>>
     ELSE /\ execLog' = [execLog EXCEPT ![r] = Append(@, Ran(cmd[r], "nostart"))]
          /\ Finish(r, ExecErr(cmd[r][1], "nostart"), reqURL[r])
  /\ UNCHANGED <<goos, method, body, bodyRead, decodeErr, reqURL,
                 navCalls, cmd, window>>

\* The error Run returns for the exit of a started command.
WaitErr(name, o) == ExecErr(name, o)

\* return cmd.Run(), second half: Wait.  Run returns when the started
\* command has exited, with an error unless it exited with status 0.
RunWait(r, o) ==
  /\ At(r, "wait")
  /\ execLog' = [execLog EXCEPT ![r] = [@ EXCEPT ![Len(@)] = Ran(cmd[r], o)]]
  /\ Finish(r, WaitErr(cmd[r][1], o), reqURL[r])
  /\ UNCHANGED <<goos, method, body, bodyRead, decodeErr, reqURL,
                 navCalls, cmd, window>>

\* A request with one of the bodies B arrives on the idle connection r.
Arrive(r, B) ==
  /\ At(r, "idle")
  /\ \E m \in Methods, b \in B : Receive(r, m, b)

\* The steps of request r after it has been received.
Step(r) ==
  \/ \E o \in ExecOutcomes : Pgrep(r, o)
  \/ \E o \in ExecOutcomes : Focus(r, o)
  \/ \E o \in ExecOutcomes : SelectBar(r, o)
  \/ \E o \in ExecOutcomes : TypeURL(r, o)
  \/ \E o \in ExecOutcomes : PressEnter(r, o)
  \/ \E o \in TasklistOutcomes : Tasklist(r, o)
  \/ \E started \in BOOLEAN : RunStart(r, started)
  \/ \E o \in {"ok", "exit1"} : RunWait(r, o)

\* One request on its own, with every method and body.
Next ==
  \/ Arrive(1, Bodies)
  \/ Step(1)

Spec == Init /\ [][Next]_vars

\* Requests in flight together, each with a well-formed body.
ConcBodies == {<<"{", "'url'", ":", v, "}">> : v \in {"'a'", "''"}}

NextConc ==
  \E r \in Reqs :
    \/ Arrive(r, ConcBodies)
    \/ Step(r)

SpecConc == Init /\ [][NextConc]_vars

\* ================================================================ claims
Done(r) == pc[r] = "done"

\* The body is one JSON document and nothing else.
ValidJSON(b) == EndOfValue(b, 1) = Len(b) + 1

\* The request passed the method check, the decode and the url check.
Accepted(r) ==
  method[r] = "POST" /\ bodyRead[r] /\ ~decodeErr[r] /\ reqURL[r] # ""

\* The last command request r executed.
LastRan(r) == execLog[r][Len(execLog[r])]

\* C1: a request whose method is not POST is answered 405, success=false,
\* "Only POST method is allowed", whatever its body, and its body is never
\* read.
C1_NonPostIs405 ==
  \A r \in Reqs :
    Done(r) /\ method[r] # "POST" =>
      /\ resp[r] = <<[status |-> 405, success |-> FALSE,
                      message |-> <<"Only POST method is allowed">>]>>
      /\ ~bodyRead[r]
      /\ navCalls[r] = 0

\* A GET whose body would have been accepted had it been POSTed.
C1_Witness ==
  \E r \in Reqs :
    /\ Done(r) /\ method[r] = "GET"
    /\ ValidJSON(body[r]) /\ ~Decode(body[r]).err /\ Decode(body[r]).url = "a"

\* C2: a POST whose body is not valid JSON is answered 400, success=false,
\* "Invalid JSON payload", and the navigation strategy is not invoked.
C2_InvalidJSONIs400 ==
  \A r \in Reqs :
    Done(r) /\ method[r] = "POST" /\ ~ValidJSON(body[r]) =>
      /\ resp[r] = <<[status |-> 400, success |-> FALSE,
                      message |-> <<"Invalid JSON payload">>]>>
      /\ navCalls[r] = 0
      /\ execLog[r] = <<>>

\* The members of a JSON object given as tokens: the positions of the
\* names, for objects whose member values are single tokens.
NamePositions(b) == {i \in 2..Len(b) : i % 4 = 2 /\ b[i] \in StrTok}

\* The document is an object with no member named url, or the last member
\* named url is the empty string.
UrlEmptyOrAbsent(b) ==
  LET named == {i \in NamePositions(b) : b[i] = "'url'"} IN
  /\ b[1] = "{"
  /\ \/ named = {}
     \/ \E i \in named : b[i + 2] = "''" /\ \A j \in named : j <= i

NoUrlName(b) == \A i \in 1..Len(b) : b[i] \notin {"'url'", "'URL'"}

\* Every command of request r that takes the url as an argument got u.
UrlArgsAre(r, u) ==
  \A i \in 1..Len(execLog[r]) :
    LET argv == execLog[r][i].argv IN
    argv[1] \in {"firefox", "osascript", "cmd", "powershell"}
      \/ (argv[1] = "xdotool" /\ argv[2] = "type")
      => argv[Len(argv)] = u

C4_StatusFollowsNavigation ==
  \A r \in Reqs :
    Done(r) /\ Accepted(r) =>
      /\ Len(resp[r]) = 1
      /\ \/ /\ navErr[r] = <<>>
            /\ resp[r][1].status = 200
            /\ resp[r][1].success
            /\ \E i \in 1..Len(resp[r][1].message) :
                 resp[r][1].message[i] = reqURL[r]
         \/ /\ navErr[r] # <<>>
            /\ resp[r][1] = [status |-> 500, success |-> FALSE,
                             message |-> <<"Failed to change URL: ">> \o navErr[r]]
      /\ goos \notin {"linux", "darwin", "windows"} =>
           resp[r][1].message =
             <<"Failed to change URL: ", "unsupported operating system: ", goos>>

\* An accepted request answered 200 after the commands of its path ran.
C4_Witness ==
  \E r \in Reqs :
    /\ Done(r) /\ Accepted(r) /\ execLog[r] # <<>>
    /\ resp[r][1].status = 200

\* C5: updateFirefoxURL is called at most once per request and only for an
\* accepted request, no command is executed twice, a request answered 405
\* or 400 has executed no command, and a request gets one response, written
\* when its handler returns.
C5_SingleAttempt ==
  \A r \in Reqs :
    /\ navCalls[r] <= 1
    /\ navCalls[r] = 1 => Accepted(r)
    /\ execLog[r] # <<>> => navCalls[r] = 1
    /\ \A i, j \in 1..Len(execLog[r]) :
         i # j => execLog[r][i].argv # execLog[r][j].argv
    /\ Len(resp[r]) = IF Done(r) THEN 1 ELSE 0
    /\ Done(r) /\ resp[r][1].status \in {405, 400} =>
         navCalls[r] = 0 /\ execLog[r] = <<>>

\* A request whose five linux commands all ran.
C5_Witness ==
  \E r \in Reqs : Done(r) /\ navCalls[r] = 1 /\ Len(execLog[r]) = 5

\* The commands of the automation sequence, in the order of the code.
XdotoolOrder ==
  <<"windowactivate", "ctrl+l", "--clearmodifiers", "Return">>

\* The commands request r ran after pgrep.
AfterCheck(r) == Tail(execLog[r])

\* C6: on linux with firefox running the commands are focus, select, type,
\* submit in this order, each issued only after the one before succeeded;
\* the first failure ends the sequence and is the error returned; a nil
\* result means all four ran and succeeded.
C6_StrictOrder ==
  \A r \in Reqs :
    goos = "linux" /\ execLog[r] # <<>> /\ execLog[r][1].out = "ok" =>
      LET steps == AfterCheck(r) IN
      /\ Len(steps) <= 4
      /\ \A i \in 1..Len(steps) :
           /\ steps[i].argv[1] = "xdotool"
           /\ \E k \in 1..Len(steps[i].argv) : steps[i].argv[k] = XdotoolOrder[i]
           /\ i < Len(steps) => steps[i].out = "ok"
      /\ \A i \in 1..Len(steps) :
           steps[i].out # "ok" =>
             /\ Done(r)
             /\ navErr[r] # <<>>
             /\ navErr[r][Len(navErr[r])] \in
                  {"exit status 1", ": executable file not found in $PATH"}
             /\ resp[r][1].status = 500
      /\ Done(r) /\ navErr[r] = <<>> =>
           Len(steps) = 4 /\ \A i \in 1..4 : steps[i].out = "ok"
      /\ Done(r) => (navErr[r] = <<>> <=> \A i \in 1..Len(steps) : steps[i].out = "ok")

\* The whole sequence ran and the request was answered 200.
C6_Witness ==
  \E r \in Reqs :
    /\ goos = "linux" /\ Done(r) /\ navErr[r] = <<>>
    /\ Len(execLog[r]) = 5 /\ execLog[r][1].out = "ok"

\* C7: when a step of the automation sequence fails, the error returned is
\* a description of the failed step followed by the underlying execution
\* error, for each of the four steps.
C7_EveryStepErrorWrapped ==
  \A r \in Reqs :
    Done(r) /\ goos = "linux" /\ Len(execLog[r]) > 1
            /\ LastRan(r).argv[1] = "xdotool" /\ LastRan(r).out # "ok" =>
      LET underlying == IF LastRan(r).out = "exit1"
                        THEN <<"exit status 1">>
                        ELSE <<"exec: ", "xdotool", ": executable file not found in $PATH">>
      IN /\ Len(navErr[r]) = Len(underlying) + 1
         /\ Tail(navErr[r]) = underlying

\* The last command of request r launched the browser with the url.
Launched(r) ==
  /\ execLog[r] # <<>>
  /\ LastRan(r).argv[1] \in {"firefox", "cmd"}
  /\ LastRan(r).out # "nostart"

\* C8: a launch of the browser succeeds or fails with the start of the
\* process; a launch that started is a success whatever the exit status.
C8_LaunchDecidedAtStart ==
  \A r \in Reqs :
    Done(r) /\ Launched(r) => navErr[r] = <<>> /\ resp[r][1].status = 200

AutomationSteps == {"focus", "select", "type", "enter"}

\* C10: nothing serialises the automation steps of two requests: a request
\* that stands at an automation step can take it whatever the other
\* requests are doing.
C10_NoCoordination ==
  \A r \in Reqs :
    pc[r] \in AutomationSteps => ENABLED Xdotool(r, pc[r], "ok")

\* The type step of one request ran between the select and the submit of
\* another, and both were answered 200.
C10_Witness ==
  \E r, q \in Reqs :
    /\ r # q
    /\ \E i, j, k \in 1..Len(window) :
         /\ i < j /\ j < k
         /\ window[i] = <<r, "select">>
         /\ window[j] = <<q, "type">>
         /\ window[k] = <<r, "enter">>
    /\ Done(r) /\ resp[r][1].status = 200
    /\ Done(q) /\ resp[q][1].status = 200

====
